---- MODULE Spec2Model ----
(***************************************************************************)
(* Snappx TRL-3 / Run 1: the drop-feed simulation engine.                  *)
(*                                                                         *)
(* The module models simulate_run of src/snappx_trl3_run1.py and of        *)
(* src/bandits.py as a state machine over one call: Begin (seeding, agent  *)
(* construction, arrival generation), one Arrival per iteration of the     *)
(* `for t in arrivals` loop, and Return (the ratios and the metrics dict). *)
(*                                                                         *)
(* Specifications.                                                         *)
(*   Spec         one call of simulate_run with arguments of the caller's  *)
(*                choice                                                   *)
(*   SpecPair     two calls of simulate_run with the same arguments, made  *)
(*                in different states of the random generator              *)
(*   SpecCompare  one call of compare_policies: make_default_drops, the    *)
(*                random run, the Thompson run                             *)
(*   SpecMain     main's sweep: one call of compare_policies per seed      *)
(*   SpecBoth     the simulate_run of each file, on the same arguments and *)
(*                the same stream of draws                                 *)
(*   SpecDrops, SpecConversion, SpecChoice                                 *)
(*                one call of make_default_drops, of the conversion model, *)
(*                of the Thompson choice                                   *)
(*                                                                         *)
(* Conventions.                                                            *)
(*  - Python list indices are 0-based, sequences here are 1-based: the     *)
(*    global drop index i of the code is i+1 here; 0 stands for "not set". *)
(*  - Floats are modelled as exact rationals <<num, den>>, den > 0.        *)
(*    base_p is kept in percent (0.06 is 6), see PBase.                    *)
(*  - The global random generator is modelled by its abstract state        *)
(*    <<seeding, number of draws since>>; a draw returns a raw word in     *)
(*    0..RawMax-1 from which randrange, random and betavariate derive      *)
(*    their values.  Which word a draw returns is left open (\E), so every *)
(*    stream a generator could produce is explored.                        *)
(*  - None is the empty sequence, Some(x) is <<x>>.                        *)
(***************************************************************************)
EXTENDS Integers, Sequences, FiniteSets, TLC

VARIABLES run, twin, cmp

vars == <<run, twin, cmp>>

(***************************************************************************)
(* Bounds of the model.                                                    *)
(***************************************************************************)
MaxUsers == 2
MaxStock == 2
RawMax == 2

(***************************************************************************)
(* Rational arithmetic (the code's float arithmetic, without rounding).    *)
(***************************************************************************)
Rat(n, d) == <<n, d>>
RInt(n) == <<n, 1>>
RLess(a, b) == a[1] * b[2] < b[1] * a[2]
REq(a, b) == a[1] * b[2] = b[1] * a[2]
RLeq(a, b) == a[1] * b[2] <= b[1] * a[2]
RMax(a, b) == IF RLess(a, b) THEN b ELSE a
RMin(a, b) == IF RLess(b, a) THEN b ELSE a
RAdd(a, b) == <<a[1] * b[2] + b[1] * a[2], a[2] * b[2]>>
RSub(a, b) == <<a[1] * b[2] - b[1] * a[2], a[2] * b[2]>>
RMul(a, b) == <<a[1] * b[1], a[2] * b[2]>>

IMax(a, b) == IF a < b THEN b ELSE a

RECURSIVE SumSeq(_)
SumSeq(s) == IF s = << >> THEN 0 ELSE Head(s) + SumSeq(Tail(s))

None == << >>
Some(x) == <<x>>

(***************************************************************************)
(* Drop (the dataclass).  base_p is in percent.                            *)
(***************************************************************************)
Drop(name, base_p, stock, duration_s, sold, redemptions) ==
    [name |-> name, base_p |-> base_p, stock |-> stock,
     duration_s |-> duration_s, sold |-> sold, redemptions |-> redemptions]

PBase(pct) == Rat(pct, 100)

(***************************************************************************)
(* The conversion model.                                                   *)
(***************************************************************************)
UrgencyK == Rat(5, 4)

\* Variant: an urgency that grows with the time remaining.
UrgencyRising(t_remaining, total) ==
    IF total <= 0
    THEN RInt(1)
    ELSE LET x == RMax(RInt(0), RMin(RInt(1), Rat(t_remaining, total)))
             mult == RAdd(RInt(1), RMul(UrgencyK, x))
         IN RMax(Rat(1, 5), RMin(RInt(2), mult))

urgency_multiplier(t_remaining, total) ==
    IF total <= 0
    THEN RInt(1)
    ELSE LET x == RMax(RInt(0), RMin(RInt(1), Rat(t_remaining, total)))
             mult == RAdd(RInt(1), RMul(UrgencyK, RSub(RInt(1), x)))
         IN RMax(Rat(1, 5), RMin(RInt(2), mult))

observed_conversion(p_base, t_remaining, total) ==
    RMax(RInt(0), RMin(RInt(1), RMul(p_base, urgency_multiplier(t_remaining, total))))

(***************************************************************************)
(* The random module.  A draw hands out a raw word r in 0..RawMax-1.       *)
(*   random.random()        is r / RawMax, a value of [0, 1)               *)
(*   random.randrange(n)    is r % n for n > 0 and raises for n <= 0       *)
(*   random.betavariate(..) is r / RawMax: a value of [0, 1]; its          *)
(*                          dependence on (alpha, beta) is abstracted to   *)
(*                          "any value the draw allows"                    *)
(* random.seed(seed) puts the generator in the state <<seed, 0>>; every    *)
(* draw advances the second component.                                     *)
(***************************************************************************)
Raw == 0 .. (RawMax - 1)

RandomRandom(r) == Rat(r, RawMax)

\* For n <= 0 the call raises (RandRangeFails) and has no value.
RandRange(n, r) == IF n > 0 THEN r % n ELSE 0

\* Variant: a randrange that takes the empty range of 0.
RandRangeFailsBelowZero(n) == n < 0

\* randrange(n) raises ValueError("empty range for randrange()") for n <= 0.
RandRangeFails(n) == n <= 0

BetaVariate(a, b, r) == Rat(r, RawMax)

Unseeded == <<-1, 0>>

\* Variant: a call that does not reseed the generator.
SeedRngKeep(rng, seed) == rng

SeedRng(rng, seed) == <<seed, 0>>

Advance(rng, k) == <<rng[1], rng[2] + k>>

(***************************************************************************)
(* ThompsonBeta                                                            *)
(***************************************************************************)
WithK(k) == [alpha |-> [j \in 1 .. k |-> 1], beta |-> [j \in 1 .. k |-> 1]]

\* sample_index of snappx_trl3_run1.py: the loop over available_idx, from
\* position k on, with the best index and value so far.  d are the raw words
\* of the draws, one per eligible index, in list order.
RECURSIVE SampleLoop(_, _, _, _, _, _)
SampleLoop(agent, available_idx, d, k, best_idx, best_val) ==
    IF k > Len(available_idx)
    THEN best_idx
    ELSE LET i == available_idx[k]
             val == BetaVariate(agent.alpha[i], agent.beta[i], d[k])
         IN IF RLess(best_val, val)
            THEN SampleLoop(agent, available_idx, d, k + 1, i, val)
            ELSE SampleLoop(agent, available_idx, d, k + 1, best_idx, best_val)

\* Variant: among equal maximal samples the last one wins.
SampleIndexLast(agent, available_idx, d) ==
    available_idx[
        CHOOSE j \in 1 .. Len(available_idx) :
            /\ \A m \in 1 .. Len(available_idx) :
                  ~RLess(BetaVariate(agent.alpha[available_idx[j]],
                                     agent.beta[available_idx[j]], d[j]),
                         BetaVariate(agent.alpha[available_idx[m]],
                                     agent.beta[available_idx[m]], d[m]))
            /\ \A m \in (j + 1) .. Len(available_idx) :
                  RLess(BetaVariate(agent.alpha[available_idx[m]],
                                    agent.beta[available_idx[m]], d[m]),
                        BetaVariate(agent.alpha[available_idx[j]],
                                    agent.beta[available_idx[j]], d[j]))]

sample_index(agent, available_idx, d) ==
    SampleLoop(agent, available_idx, d, 1, 0, RInt(-1))

\* bandits.py: samples over the mapped indices, then
\* max(range(len(samples)), key=lambda j: samples[j]); Python's max returns
\* the first maximal element.  The result is a position in `available`.
ShadowSamples(agent, mapped, d) ==
    [j \in 1 .. Len(mapped) |->
        BetaVariate(agent.alpha[mapped[j]], agent.beta[mapped[j]], d[j])]

\* Variant: a max that returns the last maximal position.
MaxRangeKeyLast(samples) ==
    CHOOSE j \in 1 .. Len(samples) :
        /\ \A m \in 1 .. Len(samples) : RLeq(samples[m], samples[j])
        /\ \A m \in (j + 1) .. Len(samples) : RLess(samples[m], samples[j])

MaxRangeKey(samples) ==
    CHOOSE j \in 1 .. Len(samples) :
        /\ \A m \in 1 .. Len(samples) : RLeq(samples[m], samples[j])
        /\ \A m \in 1 .. (j - 1) : RLess(samples[m], samples[j])

\* Variant: every outcome counted as a success of the arm.
UpdateAlphaAlways(agent, i, success) ==
    [agent EXCEPT !.alpha[i] = @ + 1]

update(agent, i, success) ==
    IF success = 1
    THEN [agent EXCEPT !.alpha[i] = @ + 1]
    ELSE [agent EXCEPT !.beta[i] = @ + 1]

random_policy(k, r) == RandRange(k, r)

(***************************************************************************)
(* simulate_run.  The state of one call is a record:                       *)
(*   impl          "run1" (snappx_trl3_run1.py) or "bandits" (bandits.py)  *)
(*   drops, users, horizon_s, policy, seed     the arguments               *)
(*   drops0        the drops as they were passed (history)                 *)
(*   agent         None or Some(ThompsonBeta)                              *)
(*   arrivals, n   the sorted arrival times and the number of loop         *)
(*                 iterations made                                         *)
(*   t, available, i, token    the loop's locals (i = 0: not set)          *)
(*   views, tokens, redemptions                                            *)
(*   pc            "idle", "loop", "returned" or "raised"                  *)
(*   err           the exception raised, "" when none                      *)
(*   result        None or Some(the returned dict)                         *)
(*   rng           the state of the global random generator                *)
(*   rng0          that state when the call was made (history)             *)
(***************************************************************************)
Call(impl, drops, users, horizon_s, policy, seed, rng) ==
    [impl |-> impl, drops |-> drops, drops0 |-> drops, users |-> users,
     horizon_s |-> horizon_s, policy |-> policy, seed |-> seed,
     agent |-> None, arrivals |-> << >>, n |-> 0,
     t |-> 0, available |-> << >>, i |-> 0, token |-> 0,
     views |-> 0, tokens |-> 0, redemptions |-> 0,
     pc |-> "idle", err |-> "", result |-> None, rng |-> rng, rng0 |-> rng]

RECURSIVE Insert(_, _)
Insert(x, s) ==
    IF s = << >> THEN <<x>>
    ELSE IF x <= Head(s) THEN <<x>> \o s
    ELSE <<Head(s)>> \o Insert(x, Tail(s))

RECURSIVE Sorted(_)
Sorted(s) == IF s = << >> THEN << >> ELSE Insert(Head(s), Sorted(Tail(s)))

\* Variant: at least one arrival, whatever users is.
NumArrivalsAtLeastOne(users) == IMax(1, users)

\* Variant: one arrival short.
NumArrivalsLessOne(users) == IMax(0, users - 1)

\* range(users)
NumArrivals(users) == IMax(0, users)

\* Lines 58-61 (77-87 of bandits.py).  a holds the raw words of the `users`
\* draws of randrange(horizon_s).
Begin(st, a) ==
    LET rng == SeedRng(st.rng, st.seed)
        agent == IF st.policy = "thompson" THEN Some(WithK(Len(st.drops))) ELSE None
        cnt == NumArrivals(st.users)
    IN IF cnt > 0 /\ RandRangeFails(st.horizon_s)
       THEN [st EXCEPT !.rng = rng, !.agent = agent, !.pc = "raised",
                       !.err = "ValueError: empty range for randrange()"]
       ELSE [st EXCEPT !.rng = Advance(rng, cnt), !.agent = agent,
                       !.arrivals = Sorted([j \in 1 .. cnt |-> RandRange(st.horizon_s, a[j])]),
                       !.views = 0, !.tokens = 0, !.redemptions = 0,
                       !.pc = "loop"]

\* Variant: drops with stock 0 kept eligible.
AvailableWithEmpty(drops) ==
    SelectSeq([j \in 1 .. Len(drops) |-> j], LAMBDA j : drops[j].stock >= 0)

\* Variant: every drop eligible, whatever its stock.
AvailableAll(drops) == [j \in 1 .. Len(drops) |-> j]

\* [i for i, d in enumerate(drops) if d.stock > 0]
Available(drops) ==
    SelectSeq([j \in 1 .. Len(drops) |-> j], LAMBDA j : drops[j].stock > 0)

Supported(policy) == policy \in {"random", "thompson"}

\* The number of draws the policy's choice consumes.
ChoiceDraws(policy, available) ==
    IF policy = "random" THEN 1 ELSE Len(available)

\* Variant: the position drawn by random_policy used as a drop index, without
\* the mapping through available.
ChooseUnmapped(impl, policy, agent, available, d) ==
    IF policy = "random"
    THEN random_policy(Len(available), d[1]) + 1
    ELSE IF impl = "run1"
         THEN sample_index(agent[1], available, d)
         ELSE available[MaxRangeKey(ShadowSamples(agent[1], available, d))]

\* Lines 65-68 and 72 (96-109 and 113 of bandits.py): the global index of the
\* chosen drop.
Choose(impl, policy, agent, available, d) ==
    IF policy = "random"
    THEN available[random_policy(Len(available), d[1]) + 1]
    ELSE IF impl = "run1"
         THEN sample_index(agent[1], available, d)
         ELSE available[MaxRangeKey(ShadowSamples(agent[1], available, d))]

\* Variant: a sale that does not count the unit as sold.
SellWithoutSold(d) ==
    [d EXCEPT !.stock = @ - 1, !.redemptions = @ + 1]

\* d.stock -= 1; d.sold += 1; d.redemptions += 1
Sell(d) ==
    [d EXCEPT !.stock = @ - 1, !.sold = @ + 1, !.redemptions = @ + 1]

\* Variant: the posterior keyed by the position of i in the eligible list.
ObserveAtPosition(st, i, success) ==
    IF st.policy = "thompson"
    THEN Some(update(st.agent[1],
                     CHOOSE j \in 1 .. Len(st.available) : st.available[j] = i,
                     success))
    ELSE st.agent

\* Variant: only successes are fed back to the agent.
ObserveSuccessOnly(st, i, success) ==
    IF st.policy = "thompson" /\ success = 1
    THEN Some(update(st.agent[1], i, success))
    ELSE st.agent

\* if policy == "thompson": agent.update(i, success)
Observe(st, i, success) ==
    IF st.policy = "thompson"
    THEN Some(update(st.agent[1], i, success))
    ELSE st.agent

\* Variant: a token that is not counted as a redemption.
CountTokenOnly(st) ==
    [st EXCEPT !.tokens = @ + 1]

\* tokens += 1; redemptions += 1
CountToken(st) ==
    [st EXCEPT !.tokens = @ + 1, !.redemptions = @ + 1]

\* One iteration of `for t in arrivals` (lines 62-85; 89-136 of bandits.py).
\* d holds the raw words of the draws the iteration makes, in order.
Iteration(st, d) ==
    LET t == st.arrivals[st.n + 1]
        available == Available(st.drops)
        at == [st EXCEPT !.n = @ + 1, !.t = t, !.available = available]
    IN IF available = << >>
       THEN at
       ELSE IF ~Supported(st.policy)
       THEN [at EXCEPT !.pc = "raised", !.err = "ValueError: Unknown policy"]
       ELSE LET i == Choose(st.impl, st.policy, st.agent, available, d)
                dr == st.drops[i]
                t_remaining == IMax(0, dr.duration_s - t)
                p_obs == observed_conversion(PBase(dr.base_p), t_remaining, dr.duration_s)
                u == d[ChoiceDraws(st.policy, available) + 1]
                token == IF RLess(RandomRandom(u), p_obs) THEN 1 ELSE 0
                seen == [at EXCEPT !.i = i, !.views = @ + 1, !.token = token,
                                   !.rng = Advance(@, ChoiceDraws(st.policy, available) + 1)]
            IN IF token = 1
               THEN [CountToken(seen) EXCEPT !.drops[i] = Sell(dr),
                                             !.agent = Observe(seen, i, 1)]
               ELSE [seen EXCEPT !.agent = Observe(seen, i, 0)]

\* The draws an iteration from st will make.
DrawsNeeded(st) ==
    LET available == Available(st.drops)
    IN IF available = << >> \/ ~Supported(st.policy)
       THEN 0
       ELSE ChoiceDraws(st.policy, available) + 1

\* Variant: the division without its guard.  A ratio whose denominator is 0
\* stands for the ZeroDivisionError its evaluation raises, see Finish.
RatioUnguarded(num, den) == Rat(num, den)

\* (num / den) if den else 0.0
Ratio(num, den) == IF den # 0 THEN Rat(num, den) ELSE RInt(0)

Ctr(st) == Ratio(st.tokens, st.views)

\* bandits.py divides by max(1, tokens) under the same guard.
Conv(st) ==
    IF st.impl = "run1"
    THEN Ratio(st.redemptions, st.tokens)
    ELSE IF st.tokens # 0 THEN Rat(st.redemptions, IMax(1, st.tokens)) ELSE RInt(0)

\* Variant: the utilization over the stock that remains.
UtilStockRemaining(drops) ==
    Rat(SumSeq([j \in 1 .. Len(drops) |-> drops[j].sold]),
        IMax(1, SumSeq([j \in 1 .. Len(drops) |-> drops[j].stock])))

UtilStock(drops) ==
    Rat(SumSeq([j \in 1 .. Len(drops) |-> drops[j].sold]),
        IMax(1, SumSeq([j \in 1 .. Len(drops) |-> drops[j].stock + drops[j].sold])))

\* Lines 87-91 (138-149 of bandits.py).
Finish(st) ==
    LET ctr == Ctr(st)
        conv == Conv(st)
        util_stock == UtilStock(st.drops)
    IN IF ctr[2] = 0 \/ conv[2] = 0 \/ util_stock[2] = 0
       THEN [st EXCEPT !.pc = "raised", !.err = "ZeroDivisionError"]
       ELSE [st EXCEPT !.pc = "returned",
                       !.result = Some([views |-> st.views, tokens |-> st.tokens,
                                        redemptions |-> st.redemptions, CTR |-> ctr,
                                        conversion_given_token |-> conv,
                                        utilization_stock |-> util_stock])]

(***************************************************************************)
(* make_default_drops and compare_policies.                                *)
(***************************************************************************)
DefaultStock == 120
DefaultDuration == 900

\* The catalog, in percent: six entries in snappx_trl3_run1.py, three in
\* bandits.py.
BaseDefaults(impl) ==
    IF impl = "run1" THEN <<6, 10, 14, 8, 12, 5>> ELSE <<6, 10, 14>>

IMin(a, b) == IF a < b THEN a ELSE b

\* s[:k]
SliceTo(s, k) ==
    IF k >= 0 THEN SubSeq(s, 1, IMin(k, Len(s)))
    ELSE SubSeq(s, 1, IMax(0, Len(s) + k))

\* s * m
RECURSIVE Repeat(_, _)
Repeat(s, m) == IF m <= 0 THEN << >> ELSE s \o Repeat(s, m - 1)

\* The base_ps list of make_default_drops.
BasePsFor(impl, k) ==
    LET base_defaults == BaseDefaults(impl)
        len == Len(base_defaults)
    IN IF impl = "run1" /\ k > len
       THEN SliceTo(Repeat(base_defaults, (k + len - 1) \div len), k)
       ELSE SliceTo(base_defaults, k)

\* make_default_drops: [ok |-> TRUE, drops |-> the list], or ok = FALSE for
\* the IndexError of base_ps[i].  bandits.py takes k alone and uses its own
\* stock and duration.
MakeDefaultDrops(impl, k, stock, duration_s) ==
    LET base_ps == BasePsFor(impl, k)
        st == IF impl = "run1" THEN stock ELSE DefaultStock
        du == IF impl = "run1" THEN duration_s ELSE DefaultDuration
    IN IF k > Len(base_ps)
       THEN [ok |-> FALSE, drops |-> << >>]
       ELSE [ok |-> TRUE,
             drops |-> [j \in 1 .. IMax(0, k) |-> Drop(j, base_ps[j], st, du, 0, 0)]]

\* The state of one call of compare_policies:
\*   pc  "idle", "random" or "thompson" (the run under way), "returned", "raised"
\*   out the dict being built: None or Some(metrics) per policy
Compare(impl, users, horizon_s, k, seed) ==
    [impl |-> impl, users |-> users, horizon_s |-> horizon_s, k |-> k,
     seed |-> seed, pc |-> "idle", err |-> "",
     out |-> [random |-> None, thompson |-> None]]

NoCompare == Compare("none", 0, 0, 0, 0)

\* The drops compare_policies builds for a run.
CompareDrops(c) == MakeDefaultDrops(c.impl, c.k, DefaultStock, c.horizon_s)

(***************************************************************************)
(* The calls explored: the arguments a caller can pass.                    *)
(***************************************************************************)
Impls == {"run1", "bandits"}
Policies == {"random", "thompson", "greedy"}
UserValues == -1 .. MaxUsers
HorizonValues == -1 .. 2
Seeds == {0, 42}
BasePs == {0, 50}
Durations == {0, 2}
DropCounts == 0 .. 2

\* Fresh drops (sold = redemptions = 0), and two drops a caller passes on
\* from earlier use: one sold before, one with a negative stock.
DropValues ==
    {Drop(0, p, s, du, 0, 0) : p \in BasePs, s \in 0 .. MaxStock, du \in Durations}
    \cup {Drop(0, 50, 1, 2, 1, 1), Drop(0, 50, -1, 2, 0, 0)}

Named(ds) == [j \in 1 .. Len(ds) |-> [ds[j] EXCEPT !.name = j]]

DropLists ==
    UNION {{Named(ds) : ds \in [1 .. k -> DropValues]} : k \in DropCounts}

\* The generator before the call: left by an earlier run (seeded with 0, one
\* draw made), or as the interpreter set it up (-1: seeded by the system).
PriorRngs == {Unseeded, <<0, 1>>}

NoCall == Call("none", << >>, 0, 0, "none", 0, Unseeded)

Init ==
    /\ run \in {Call(im, ds, u, h, p, s, Unseeded) :
                  im \in Impls, ds \in DropLists, u \in UserValues,
                  h \in HorizonValues, p \in Policies, s \in Seeds}
    /\ twin = NoCall
    /\ cmp = NoCompare

BeginRun ==
    /\ run.pc = "idle"
    /\ \E a \in [1 .. NumArrivals(run.users) -> Raw] : run' = Begin(run, a)
    /\ UNCHANGED <<twin, cmp>>

Arrival ==
    /\ run.pc = "loop"
    /\ run.n < Len(run.arrivals)
    /\ \E d \in [1 .. DrawsNeeded(run) -> Raw] : run' = Iteration(run, d)
    /\ UNCHANGED <<twin, cmp>>

Return ==
    /\ run.pc = "loop"
    /\ run.n = Len(run.arrivals)
    /\ run' = Finish(run)
    /\ UNCHANGED <<twin, cmp>>

Next == BeginRun \/ Arrival \/ Return

Spec == Init /\ [][Next]_vars

(***************************************************************************)
(* Two invocations side by side.  run and twin are two calls that step     *)
(* together; the generator is deterministic: two draws made in the same    *)
(* generator state return the same raw words, draws made in different      *)
(* states are unrelated.                                                   *)
(***************************************************************************)
Returned(st) == st.pc = "returned"
Raised(st) == st.pc = "raised"
CanIterate(st) == st.pc = "loop" /\ st.n < Len(st.arrivals)
AtLoopEnd(st) == st.pc = "loop" /\ st.n = Len(st.arrivals)
Terminated(st) == st.pc \in {"returned", "raised"}

\* The drops of the paired calls: one or two fresh drops that expire at 2.
PairDropLists ==
    {ds \in DropLists :
        /\ Len(ds) >= 1
        /\ \A j \in 1 .. Len(ds) :
              ds[j].sold = 0 /\ ds[j].stock >= 0 /\ ds[j].duration_s = 2}

InitPair ==
    /\ run \in {Call(im, ds, u, h, p, s, Unseeded) :
                  im \in Impls, ds \in PairDropLists, u \in UserValues,
                  h \in HorizonValues, p \in Policies, s \in Seeds}
    /\ twin \in {[run EXCEPT !.rng = g, !.rng0 = g] : g \in PriorRngs}
    /\ cmp = NoCompare

\* The raw words the twin's draws return, given those of run's draws: the
\* same words when both generators are in the same state, any words otherwise.
TwinWords(rng1, rng2, words) ==
    IF rng1 = rng2 THEN {words} ELSE [DOMAIN words -> Raw]

PairBegin ==
    /\ run.pc = "idle" /\ twin.pc = "idle"
    /\ \E a \in [1 .. NumArrivals(run.users) -> Raw] :
          \E b \in TwinWords(SeedRng(run.rng, run.seed),
                              SeedRng(twin.rng, twin.seed), a) :
              /\ run' = Begin(run, a)
              /\ twin' = Begin(twin, b)
    /\ UNCHANGED cmp

PairArrival ==
    /\ CanIterate(run) \/ CanIterate(twin)
    /\ \E d \in [1 .. IMax(DrawsNeeded(run), DrawsNeeded(twin)) -> Raw] :
          \E e \in TwinWords(run.rng, twin.rng, d) :
              /\ run' = IF CanIterate(run) THEN Iteration(run, d) ELSE run
              /\ twin' = IF CanIterate(twin) THEN Iteration(twin, e) ELSE twin
    /\ UNCHANGED cmp

PairReturn ==
    /\ AtLoopEnd(run) \/ AtLoopEnd(twin)
    /\ ~CanIterate(run) /\ ~CanIterate(twin)
    /\ run' = IF AtLoopEnd(run) THEN Finish(run) ELSE run
    /\ twin' = IF AtLoopEnd(twin) THEN Finish(twin) ELSE twin
    /\ UNCHANGED cmp

NextPair == PairBegin \/ PairArrival \/ PairReturn

SpecPair == InitPair /\ [][NextPair]_vars

(***************************************************************************)
(* The two files side by side: run is a call of simulate_run of            *)
(* snappx_trl3_run1.py, twin the call of bandits.py's simulate_run with    *)
(* the same arguments, made in the same state of the generator, so that    *)
(* both are served the same stream of raw words.                           *)
(***************************************************************************)
InitBoth ==
    /\ run \in {Call("run1", ds, u, h, p, 0, Unseeded) :
                  ds \in DropLists, u \in UserValues, h \in HorizonValues,
                  p \in Policies}
    /\ twin = [run EXCEPT !.impl = "bandits"]
    /\ cmp = NoCompare

SpecBoth == InitBoth /\ [][NextPair]_vars

(***************************************************************************)
(* compare_policies: the random run, then the Thompson run, each over      *)
(* drops of its own; an exception of a run ends the call.                  *)
(***************************************************************************)
KValues == {-1, 0, 1, 2, 4}

InitCompare ==
    /\ cmp \in {Compare(im, u, h, k, s) :
                  im \in Impls, u \in UserValues, h \in HorizonValues,
                  k \in KValues, s \in Seeds}
    /\ run = NoCall
    /\ twin = NoCall

CompareBegin ==
    /\ cmp.pc = "idle"
    /\ LET made == CompareDrops(cmp)
       IN IF made.ok
          THEN /\ cmp' = [cmp EXCEPT !.pc = "random"]
               /\ run' = Call(cmp.impl, made.drops, cmp.users, cmp.horizon_s,
                              "random", cmp.seed, run.rng)
          ELSE /\ cmp' = [cmp EXCEPT !.pc = "raised", !.err = "IndexError"]
               /\ UNCHANGED run
    /\ UNCHANGED twin

CompareRunBegin ==
    /\ cmp.pc \in {"random", "thompson"}
    /\ BeginRun

CompareRunArrival ==
    /\ cmp.pc \in {"random", "thompson"}
    /\ Arrival

CompareRunReturn ==
    /\ cmp.pc \in {"random", "thompson"}
    /\ Return

\* Variant: the Thompson run is handed the drops of the random run.
CompareNextShared ==
    /\ cmp.pc = "random"
    /\ Returned(run)
    /\ cmp' = [cmp EXCEPT !.pc = "thompson", !.out.random = run.result]
    /\ run' = Call(cmp.impl, run.drops, cmp.users, cmp.horizon_s,
                   "thompson", cmp.seed, run.rng)
    /\ UNCHANGED twin

CompareNext ==
    /\ cmp.pc = "random"
    /\ Returned(run)
    /\ cmp' = [cmp EXCEPT !.pc = "thompson", !.out.random = run.result]
    /\ run' = Call(cmp.impl, CompareDrops(cmp).drops, cmp.users, cmp.horizon_s,
                   "thompson", cmp.seed, run.rng)
    /\ UNCHANGED twin

CompareReturn ==
    /\ cmp.pc = "thompson"
    /\ Returned(run)
    /\ cmp' = [cmp EXCEPT !.pc = "returned", !.out.thompson = run.result]
    /\ UNCHANGED <<run, twin>>

CompareRaise ==
    /\ cmp.pc \in {"random", "thompson"}
    /\ Raised(run)
    /\ cmp' = [cmp EXCEPT !.pc = "raised", !.err = run.err]
    /\ UNCHANGED <<run, twin>>

NextCompare ==
    \/ CompareBegin
    \/ CompareRunBegin
    \/ CompareRunArrival
    \/ CompareRunReturn
    \/ CompareNext
    \/ CompareReturn
    \/ CompareRaise

SpecCompare == InitCompare /\ [][NextCompare]_vars

(***************************************************************************)
(* main: `for seed in range(args.seeds)`, one call of compare_policies per *)
(* seed, each made in the generator state the call before left behind.     *)
(* twin keeps the last run of the call before, as that call left it.  A    *)
(* sweep over fewer seeds is a prefix of the sweep over MaxSeeds seeds.    *)
(* main is part of snappx_trl3_run1.py alone; horizon_s is the duration of *)
(* the drops built.                                                        *)
(***************************************************************************)
MaxSeeds == 2

InitMain ==
    /\ cmp \in {Compare("run1", u, h, k, 0) :
                  u \in UserValues, h \in Durations, k \in DropCounts}
    /\ run = NoCall
    /\ twin = NoCall

\* What a call that has ended leaves behind: its drops, agent, counters and
\* result; the locals of the loop are gone.
Left(st) ==
    [st EXCEPT !.arrivals = << >>, !.n = 0, !.t = 0, !.available = << >>,
               !.i = 0, !.token = 0, !.rng = st.rng0]

MainNextSeed ==
    /\ cmp.pc = "returned"
    /\ cmp.seed + 1 < MaxSeeds
    /\ cmp' = Compare(cmp.impl, cmp.users, cmp.horizon_s, cmp.k, cmp.seed + 1)
    /\ twin' = Left(run)
    /\ UNCHANGED run

NextMain == NextCompare \/ MainNextSeed

SpecMain == InitMain /\ [][NextMain]_vars

(***************************************************************************)
(* One call of make_default_drops.  run is the state of the call: the      *)
(* arguments, pc ("idle", "returned" or "raised") and the list returned.   *)
(* bandits.py's make_default_drops takes k alone: its stock and duration   *)
(* are the function's own.                                                 *)
(***************************************************************************)
MaxDrops == 7

DropsCall(impl, k, stock, duration_s) ==
    [impl |-> impl, k |-> k, stock |-> stock, duration_s |-> duration_s,
     pc |-> "idle", err |-> "", drops |-> << >>]

InitDrops ==
    /\ run \in {DropsCall("run1", k, s, du) :
                  k \in -1 .. MaxDrops, s \in {0, MaxStock, DefaultStock},
                  du \in Durations \cup {DefaultDuration}}
             \cup {DropsCall("bandits", k, DefaultStock, DefaultDuration) :
                     k \in -1 .. MaxDrops}
    /\ twin = NoCall
    /\ cmp = NoCompare

MakeDrops ==
    /\ run.pc = "idle"
    /\ LET made == MakeDefaultDrops(run.impl, run.k, run.stock, run.duration_s)
       IN run' = IF made.ok
                 THEN [run EXCEPT !.pc = "returned", !.drops = made.drops]
                 ELSE [run EXCEPT !.pc = "raised", !.err = "IndexError"]
    /\ UNCHANGED <<twin, cmp>>

NextDrops == MakeDrops

SpecDrops == InitDrops /\ [][NextDrops]_vars

(***************************************************************************)
(* One evaluation of the conversion model.  run is the state of the call:  *)
(* the arguments (base_p in percent), pc, and the values computed.         *)
(***************************************************************************)
MaxTime == 4

ConversionBasePs == {0, 6, 50, 100}

ConversionCall(base_p, t_remaining, total) ==
    [base_p |-> base_p, t_remaining |-> t_remaining, total |-> total,
     pc |-> "idle", mult |-> None, p_obs |-> None]

InitConversion ==
    /\ run \in {ConversionCall(p, t, total) :
                  p \in ConversionBasePs, t \in 0 .. MaxTime,
                  total \in -1 .. MaxTime}
    /\ twin = NoCall
    /\ cmp = NoCompare

Evaluate ==
    /\ run.pc = "idle"
    /\ run' = [run EXCEPT
                  !.pc = "returned",
                  !.mult = Some(urgency_multiplier(run.t_remaining, run.total)),
                  !.p_obs = Some(observed_conversion(PBase(run.base_p),
                                                     run.t_remaining, run.total))]
    /\ UNCHANGED <<twin, cmp>>

NextConversion == Evaluate

SpecConversion == InitConversion /\ [][NextConversion]_vars

(***************************************************************************)
(* One Thompson choice.  run is the state of the call: the posterior, the  *)
(* eligible list (global indices in ascending order, as Available builds   *)
(* it), the raw words d of the draws to come, pc, the index returned and   *)
(* the generator.                                                          *)
(***************************************************************************)
MaxArms == 3

\* The non-empty ascending lists over 1 .. k.
EligibleLists(k) ==
    {Available([j \in 1 .. k |-> Drop(j, 0, f[j], 0, 0, 0)]) : f \in [1 .. k -> {0, 1}]}
        \ {<< >>}

ChoicePosteriors == {WithK(MaxArms), update(update(WithK(MaxArms), 1, 1), MaxArms, 0)}

ChoiceCall(impl, agent, available, d) ==
    [impl |-> impl, agent |-> agent, available |-> available, d |-> d,
     pc |-> "idle", i |-> 0, rng |-> <<0, 0>>, rng0 |-> <<0, 0>>]

InitChoice ==
    /\ run \in UNION {{ChoiceCall(im, ag, av, d) : d \in [1 .. Len(av) -> Raw]} :
                        im \in Impls, ag \in ChoicePosteriors,
                        av \in EligibleLists(MaxArms)}
    /\ twin = NoCall
    /\ cmp = NoCompare

ChooseArm ==
    /\ run.pc = "idle"
    /\ run' = [run EXCEPT
                  !.pc = "returned",
                  !.i = Choose(run.impl, "thompson", Some(run.agent),
                               run.available, run.d),
                  !.rng = Advance(@, ChoiceDraws("thompson", run.available))]
    /\ UNCHANGED <<twin, cmp>>

NextChoice == ChooseArm

SpecChoice == InitChoice /\ [][NextChoice]_vars

(***************************************************************************)
(* The properties.                                                         *)
(***************************************************************************)
Range(s) == {s[j] : j \in 1 .. Len(s)}
Started(st) == st.pc \in {"loop", "returned"}
Metrics(st) == st.result[1]
FreshDrops(st) == \A j \in 1 .. Len(st.drops0) : st.drops0[j].sold = 0

\* C1: in every run that does not fail, after every processed arrival and at
\* run end, 0 <= tokens <= views, 0 <= redemptions <= tokens and
\* redemptions = tokens; the returned metrics carry the same counters.
C1_CountersOrdered ==
    /\ Started(run) =>
          /\ 0 <= run.tokens /\ run.tokens <= run.views
          /\ 0 <= run.redemptions /\ run.redemptions <= run.tokens
          /\ run.redemptions = run.tokens
    /\ Returned(run) =>
          /\ Metrics(run).views = run.views
          /\ Metrics(run).tokens = run.tokens
          /\ Metrics(run).redemptions = run.redemptions
          /\ Metrics(run).redemptions = Metrics(run).tokens
          /\ Metrics(run).tokens <= Metrics(run).views

\* A returned run with at least one token and at least one failed view.
C1_Witness ==
    /\ Returned(run)
    /\ Metrics(run).tokens >= 1
    /\ Metrics(run).views > Metrics(run).tokens

\* C2: for every drop passed with sold = 0, sold + stock equals the drop's
\* initial stock after every arrival and at run end, under either policy.
C2_Conservation ==
    \A j \in 1 .. Len(run.drops) :
        run.drops0[j].sold = 0 =>
            run.drops[j].sold + run.drops[j].stock = run.drops0[j].stock

\* A returned run in which a drop passed with sold = 0 has sold units.
C2_Witness ==
    /\ Returned(run)
    /\ \E j \in 1 .. Len(run.drops) :
          /\ run.drops0[j].sold = 0
          /\ run.drops[j].sold >= 1
          /\ run.drops[j].stock < run.drops0[j].stock

C3_StockStep ==
    \A j \in 1 .. Len(run.drops) :
        \/ run'.drops[j].stock = run.drops[j].stock
        \/ /\ run'.drops[j].stock = run.drops[j].stock - 1
           /\ run.drops[j].stock > 0

C3_StockNonNegative ==
    \A j \in 1 .. Len(run.drops) :
        run.drops0[j].stock >= 0 => run.drops[j].stock >= 0

\* C3: a drop whose initial stock is >= 0 has stock >= 0 in every reachable
\* state; stock only ever changes by a decrement of 1, and only for a drop
\* that had stock > 0 when the arrival was processed.
C3_StockNeverNegative == [](C3_StockNonNegative) /\ [][C3_StockStep]_vars

\* A drop sold down from a positive stock to exactly 0.
C3_Witness ==
    \E j \in 1 .. Len(run.drops) :
        /\ run.drops0[j].stock >= 1
        /\ run.drops[j].stock = 0
        /\ run.n < Len(run.arrivals)

C4_ChoiceStep ==
    /\ run'.views # run.views =>
          /\ run'.i \in Range(Available(run.drops))
          /\ run.drops[run'.i].stock > 0
    /\ \A j \in 1 .. Len(run.drops) :
          run.drops[j].stock = 0 =>
              /\ run'.drops[j] = run.drops[j]
              /\ (run'.views # run.views => run'.i # j)

\* C4: at every arrival, under either policy, the chosen index is one of the
\* eligible indices (stock > 0 at that arrival); a drop with stock 0, from
\* the start or sold out, is never chosen again and its sold and redemptions
\* stay as they are.
C4_ChoiceEligible == [][C4_ChoiceStep]_vars

\* A Thompson run whose first drop sold out and whose next arrival chose the
\* second drop.
C4_Witness ==
    /\ run.policy = "thompson"
    /\ Len(run.drops) = 2
    /\ run.drops0[1].stock = 1
    /\ run.drops[1].stock = 0
    /\ run.views = 2
    /\ run.i = 2

IsZero(r) == r[1] = 0 /\ r[2] # 0
AllZero(m) ==
    /\ m.views = 0 /\ m.tokens = 0 /\ m.redemptions = 0
    /\ IsZero(m.CTR) /\ IsZero(m.conversion_given_token) /\ IsZero(m.utilization_stock)
TotalInitialStock(st) == SumSeq([j \in 1 .. Len(st.drops0) |-> st.drops0[j].stock])
NonNegativeStock(st) == \A j \in 1 .. Len(st.drops0) : st.drops0[j].stock >= 0

\* C6 as stated: with users = 0, a supported policy and horizon_s > 0 the run
\* returns all-zero metrics without raising, whatever the drops; and each
\* ratio is 0.0 whenever its denominator (views, tokens, total initial stock)
\* is 0.
C6_ZeroUsersAnyDrops ==
    /\ (run.users = 0 /\ Supported(run.policy) /\ run.horizon_s > 0) =>
          /\ ~Raised(run)
          /\ Returned(run) => AllZero(Metrics(run))
    /\ Returned(run) =>
          /\ Metrics(run).views = 0 => IsZero(Metrics(run).CTR)
          /\ Metrics(run).tokens = 0 => IsZero(Metrics(run).conversion_given_token)
          /\ TotalInitialStock(run) = 0 => IsZero(Metrics(run).utilization_stock)

\* C6 amended: the same for drops that start with sold = 0: all-zero metrics
\* and no fault for users = 0; CTR is 0.0 whenever views = 0 and
\* conversion_given_token is 0.0 whenever tokens = 0 for any drops; and
\* utilization_stock is 0.0 whenever the total initial stock is 0, for drops
\* that start with sold = 0 and stock >= 0.  No run ends in a division by 0.
C6_ZeroUsersFreshDrops ==
    /\ (run.users = 0 /\ Supported(run.policy) /\ run.horizon_s > 0) =>
          /\ ~Raised(run)
          /\ (Returned(run) /\ FreshDrops(run)) => AllZero(Metrics(run))
    /\ run.err # "ZeroDivisionError"
    /\ Returned(run) =>
          /\ Metrics(run).views = 0 => IsZero(Metrics(run).CTR)
          /\ Metrics(run).tokens = 0 => IsZero(Metrics(run).conversion_given_token)
          /\ (TotalInitialStock(run) = 0 /\ FreshDrops(run) /\ NonNegativeStock(run)) =>
                IsZero(Metrics(run).utilization_stock)

\* A run with users = 0 over two fresh drops with stock that has returned.
C6_Witness ==
    /\ run.users = 0 /\ run.policy = "thompson" /\ run.horizon_s > 0
    /\ Len(run.drops) = 2 /\ FreshDrops(run) /\ TotalInitialStock(run) > 0
    /\ Returned(run) /\ AllZero(Metrics(run))

\* C7: a call with a policy other than "random" and "thompson" never returns
\* metrics and never mutates a drop, for every configuration.
C7_UnknownPolicyNeverReturns ==
    ~Supported(run.policy) =>
        /\ ~Returned(run)
        /\ run.result = None
        /\ run.drops = run.drops0

\* C8 as stated: a run with horizon_s = 0, for any users >= 0, raises no fault
\* and returns all-zero metrics.
C8_ZeroHorizonReturnsZeros ==
    (run.horizon_s = 0 /\ run.users >= 0) =>
        /\ ~Raised(run)
        /\ Returned(run) => AllZero(Metrics(run))

\* C8 amended: a run with horizon_s = 0 ends before any arrival is processed;
\* with users = 0 it raises no fault and returns all-zero metrics (for drops
\* that start with sold = 0); with users > 0 it raises the ValueError of
\* randrange on an empty range, returns no metrics and mutates no drop.
C8_ZeroHorizonEndsAtOnce ==
    run.horizon_s = 0 =>
        /\ run.n = 0 /\ run.views = 0 /\ run.drops = run.drops0
        /\ run.users = 0 =>
              /\ ~Raised(run)
              /\ (Returned(run) /\ FreshDrops(run)) => AllZero(Metrics(run))
        /\ run.users > 0 =>
              /\ run.pc \in {"idle", "raised"}
              /\ Raised(run) => run.err = "ValueError: empty range for randrange()"
              /\ run.result = None

\* A call with horizon_s = 0 and users > 0 that has raised.
C8_Witness ==
    /\ run.horizon_s = 0 /\ run.users > 0 /\ Len(run.drops) > 0
    /\ Raised(run)

Arms(st) == 1 .. Len(st.drops)
Posterior(st) == st.agent[1]
Chose(st, nx) == nx.views # st.views

C10_PriorOnes ==
    (run.policy = "thompson" /\ Started(run) /\ run.n = 0) =>
        /\ run.agent # None
        /\ DOMAIN Posterior(run).alpha = Arms(run)
        /\ DOMAIN Posterior(run).beta = Arms(run)
        /\ \A j \in Arms(run) :
              Posterior(run).alpha[j] = 1 /\ Posterior(run).beta[j] = 1

C10_PosteriorStep ==
    (run.policy = "thompson" /\ Started(run)) =>
        /\ run'.agent # None
        /\ \A j \in Arms(run) :
              /\ Posterior(run').alpha[j] >= Posterior(run).alpha[j]
              /\ Posterior(run').beta[j] >= Posterior(run).beta[j]
        /\ ~Chose(run, run') => run'.agent = run.agent
        /\ Chose(run, run') =>
              /\ run'.n = run.n + 1
              /\ Available(run.drops) # << >>
              /\ run'.token = 1 =>
                    /\ run'.drops[run'.i].sold = run.drops[run'.i].sold + 1
                    /\ Posterior(run') =
                          [Posterior(run) EXCEPT !.alpha[run'.i] = @ + 1]
              /\ run'.token = 0 =>
                    /\ run'.drops = run.drops
                    /\ Posterior(run') =
                          [Posterior(run) EXCEPT !.beta[run'.i] = @ + 1]

\* C10: in a Thompson run every arm starts at (alpha, beta) = (1, 1); an
\* arrival with a non-empty eligible set changes exactly one parameter, that
\* of the chosen drop's global index: alpha + 1 on success, beta + 1 on
\* failure; no parameter ever decreases and no other arm is updated; an
\* arrival that chooses nothing leaves the posterior as it is.
C10_PosteriorUpdates == [](C10_PriorOnes) /\ [][C10_PosteriorStep]_vars

\* A Thompson run whose first drop is out of stock from the start, so that
\* the second drop is at position 1 of the eligible list, after one failure
\* and one success of the second drop.
C10_Witness ==
    /\ run.policy = "thompson"
    /\ Len(run.drops) = 2
    /\ run.drops0[1].stock = 0
    /\ run.views = 2
    /\ Posterior(run).alpha = <<1, 2>>
    /\ Posterior(run).beta = <<1, 2>>

\* C5: two invocations of simulate_run with identical drops configuration,
\* users, horizon_s, policy and seed end alike and return identical metrics,
\* whatever state earlier runs left the random generator in.
C5_Determinism ==
    (Terminated(run) /\ Terminated(twin)) =>
        /\ run.pc = twin.pc
        /\ run.err = twin.err
        /\ run.result = twin.result
        /\ run.drops = twin.drops

\* Two invocations made in different generator states that both returned,
\* with tokens and failed views.
C5_Witness ==
    /\ run.rng0 # twin.rng0
    /\ Returned(run) /\ Returned(twin)
    /\ Metrics(run).tokens >= 1
    /\ Metrics(run).views > Metrics(run).tokens

NoMetrics == cmp.out.random = None /\ cmp.out.thompson = None /\ run.result = None
NoArrivalProcessed == run.n = 0 /\ run.views = 0
NoDropMutated == run.drops = run.drops0

\* C9 as stated: a configuration with non-positive users, horizon_s or k is
\* rejected by compare_policies before any arrival is processed: the call
\* does not return, no metrics are produced and no drop is mutated.
C9_NonPositiveRejected ==
    (cmp.pc # "idle" /\ (cmp.users <= 0 \/ cmp.horizon_s <= 0 \/ cmp.k <= 0)) =>
        /\ cmp.pc # "returned"
        /\ NoMetrics
        /\ NoArrivalProcessed
        /\ NoDropMutated

\* C9 amended: only a non-positive horizon_s with users > 0 is rejected: the
\* call fails with the ValueError of randrange before any arrival is
\* processed, no metrics are returned and no drop is mutated.  Non-positive
\* users, or a non-positive k with horizon_s > 0, are not rejected: no run
\* raises, no drop is mutated, and the call returns all-zero metrics for both
\* policies; the only exception such a call can end in is the IndexError of
\* bandits.py's make_default_drops for k > 3.
C9_EmptyHorizonRejected ==
    /\ (cmp.pc # "idle" /\ cmp.users > 0 /\ cmp.horizon_s <= 0) =>
          /\ cmp.pc \in {"random", "raised"}
          /\ NoMetrics
          /\ NoArrivalProcessed
          /\ NoDropMutated
          /\ (cmp.pc = "raised" /\ CompareDrops(cmp).ok) =>
                cmp.err = "ValueError: empty range for randrange()"
    /\ (cmp.pc # "idle" /\ (cmp.users <= 0 \/ (cmp.k <= 0 /\ cmp.horizon_s > 0))) =>
          /\ cmp.pc = "raised" =>
                cmp.err = "IndexError" /\ cmp.impl = "bandits" /\ cmp.k > 3
          /\ ~Raised(run)
          /\ run.views = 0
          /\ NoDropMutated
          /\ cmp.pc = "returned" =>
                /\ AllZero(cmp.out.random[1])
                /\ AllZero(cmp.out.thompson[1])

\* A call with users > 0 and horizon_s = 0 over two drops that has raised.
C9_Witness ==
    /\ cmp.users > 0 /\ cmp.horizon_s <= 0 /\ cmp.k = 2
    /\ cmp.pc = "raised"
    /\ Len(run.drops) = 2

\* The drops a run of compare_policies starts from: k drops with the initial
\* stock, nothing sold or redeemed, as make_default_drops builds them.
C11_FreshRun ==
    cmp.pc \in {"random", "thompson"} =>
        /\ run.policy = cmp.pc
        /\ run.drops0 = CompareDrops(cmp).drops
        /\ Len(run.drops0) = IMax(0, cmp.k)
        /\ \A j \in 1 .. Len(run.drops0) :
              /\ run.drops0[j].stock = DefaultStock
              /\ run.drops0[j].sold = 0
              /\ run.drops0[j].redemptions = 0
              /\ run.drops0[j].base_p = BaseDefaults(cmp.impl)[((j - 1) % Len(BaseDefaults(cmp.impl))) + 1]
              /\ run.drops0[j].duration_s =
                    (IF cmp.impl = "run1" THEN cmp.horizon_s ELSE DefaultDuration)
        /\ run.pc = "idle" => run.drops = run.drops0 /\ run.agent = None
        /\ (run.policy = "thompson" /\ Started(run) /\ run.n = 0) =>
              /\ run.agent # None
              /\ \A j \in Arms(run) :
                    Posterior(run).alpha[j] = 1 /\ Posterior(run).beta[j] = 1
        /\ (run.policy = "random" /\ Started(run)) => run.agent = None
        /\ (twin # NoCall /\ twin.pc = "returned") => run.drops0 = twin.drops0

\* C11: compare_policies, called for a sequence of seeds, gives every run
\* (each policy, each seed) freshly built drops with the initial stock and
\* sold = redemptions = 0, identical in base_p, stock and duration between
\* the two policies and between the seeds, and a fresh (1, 1) Thompson prior:
\* no run starts from the depleted stock or the posterior of another run.
C11_RunsIsolated == C11_FreshRun

\* The random run of the second seed is about to start from fresh drops,
\* after the Thompson run of the first seed sold a unit and moved its
\* posterior.
C11_Witness ==
    /\ cmp.seed = 1 /\ cmp.pc = "random" /\ run.pc = "idle"
    /\ twin.policy = "thompson" /\ twin.tokens >= 1
    /\ twin.drops # twin.drops0
    /\ Posterior(twin) # WithK(Len(twin.drops))
    /\ run.drops = CompareDrops(cmp).drops

\* catalog[i mod len(catalog)], for the 0-based i = j - 1.
CatalogAt(impl, j) ==
    BaseDefaults(impl)[((j - 1) % Len(BaseDefaults(impl))) + 1]

\* C12: make_default_drops(k, stock, duration_s) returns exactly k drops
\* named in order, each with the given stock and duration_s and sold = 0,
\* drop i with the base probability catalog[i mod len(catalog)] of the fixed
\* catalog that starts 0.06, 0.10, 0.14: it cycles through the catalog when
\* k exceeds its length and never fails for k larger than the catalog.
C12_DefaultDropsCycle ==
    /\ SubSeq(BaseDefaults(run.impl), 1, 3) = <<6, 10, 14>>
    /\ run.k >= 0 => ~Raised(run)
    /\ (Returned(run) /\ run.k >= 0) =>
          /\ Len(run.drops) = run.k
          /\ \A j \in 1 .. Len(run.drops) :
                /\ run.drops[j].name = j
                /\ run.drops[j].stock = run.stock
                /\ run.drops[j].duration_s = run.duration_s
                /\ run.drops[j].sold = 0
                /\ run.drops[j].base_p = CatalogAt(run.impl, j)

\* C13: for a base_p in [0, 1] and total > 0, observed_conversion is
\* non-increasing as t_remaining grows over t_remaining >= 0; its value
\* always lies in [0, min(1, 2.0 * base_p)]; and for total <= 0 the urgency
\* multiplier is exactly 1.
C13_UrgencyMonotone ==
    Returned(run) =>
        /\ RLeq(RInt(0), run.p_obs[1])
        /\ RLeq(run.p_obs[1], RMin(RInt(1), RMul(RInt(2), PBase(run.base_p))))
        /\ run.total <= 0 => run.mult[1] = RInt(1)
        /\ run.total > 0 =>
              \A later \in run.t_remaining .. (MaxTime + 1) :
                  RLeq(observed_conversion(PBase(run.base_p), later, run.total),
                       run.p_obs[1])

\* An evaluation before expiry whose probability is below 1 and strictly
\* above the one a larger t_remaining gives.
C13_Witness ==
    /\ Returned(run)
    /\ run.total > 0 /\ run.t_remaining < run.total /\ run.base_p > 0
    /\ RLess(run.p_obs[1], RInt(1))
    /\ \E later \in (run.t_remaining + 1) .. run.total :
          RLess(observed_conversion(PBase(run.base_p), later, run.total),
                run.p_obs[1])

NoStockLeft(st) == \A j \in 1 .. Len(st.drops) : st.drops[j].stock <= 0
ArrivalProcessed(st, nx) == st.pc = "loop" /\ nx.n = st.n + 1

C14_SkipStep ==
    (ArrivalProcessed(run, run') /\ NoStockLeft(run)) =>
        /\ run'.views = run.views
        /\ run'.tokens = run.tokens
        /\ run'.redemptions = run.redemptions
        /\ run'.drops = run.drops
        /\ run'.agent = run.agent
        /\ run'.rng = run.rng
        /\ run'.i = run.i
        /\ run'.pc = "loop"

\* C14: an arrival processed when no drop has stock > 0 is skipped with no
\* effect: views, tokens, redemptions, every drop's stock, sold and
\* redemptions and every posterior parameter stay as they are, and the policy
\* is not asked to choose (no draw is made, no index is chosen).
C14_SkippedArrival == [][C14_SkipStep]_vars

\* A Thompson run whose only stock sold at the first arrival and whose second
\* arrival was skipped.
C14_Witness ==
    /\ run.policy = "thompson"
    /\ Len(run.drops) = 2
    /\ TotalInitialStock(run) = 1
    /\ NoStockLeft(run)
    /\ run.n = 2 /\ run.views = 1 /\ run.tokens = 1

C15_FailureStep ==
    (ArrivalProcessed(run, run') /\ Chose(run, run') /\ run'.token = 0) =>
        /\ run'.views = run.views + 1
        /\ run'.tokens = run.tokens
        /\ run'.redemptions = run.redemptions
        /\ run'.drops = run.drops
        /\ run.policy = "thompson" =>
              /\ Posterior(run').alpha = Posterior(run).alpha
              /\ Posterior(run').beta =
                    [Posterior(run).beta EXCEPT ![run'.i] = @ + 1]
        /\ run.policy # "thompson" => run'.agent = run.agent

\* C15: an arrival whose Bernoulli outcome is a failure increments views by
\* exactly 1 and leaves tokens, redemptions and every drop's stock, sold and
\* redemptions as they are; under Thompson it increments beta of the chosen
\* index and no other posterior parameter.
C15_FailedArrival == [][C15_FailureStep]_vars

\* A Thompson run over two drops in stock whose first arrival chose the
\* second drop and failed.
C15_Witness ==
    /\ run.policy = "thompson"
    /\ Len(run.drops) = 2
    /\ run.views = 1 /\ run.tokens = 0 /\ run.token = 0 /\ run.i = 2
    /\ run.drops[1].stock > 0 /\ run.drops[2].stock > 0
    /\ Posterior(run).beta = <<1, 2>>

\* The sample drawn for position j of the eligible list: the j-th draw.
SampleAt(st, j) ==
    BetaVariate(st.agent.alpha[st.available[j]], st.agent.beta[st.available[j]],
                st.d[j])

\* C16: the Thompson choice over a non-empty eligible list draws one sample
\* per eligible index in list order and returns the index whose sample is
\* maximal; among samples equal to the maximum it returns the index that
\* comes first in the eligible list.
C16_FirstMaximalSample ==
    Returned(run) =>
        /\ run.rng = Advance(run.rng0, Len(run.available))
        /\ \E j \in 1 .. Len(run.available) :
              /\ run.i = run.available[j]
              /\ \A m \in 1 .. Len(run.available) :
                    ~RLess(SampleAt(run, j), SampleAt(run, m))
              /\ \A m \in 1 .. (j - 1) :
                    RLess(SampleAt(run, m), SampleAt(run, j))

\* A choice among three eligible arms whose maximal sample was drawn twice,
\* for the second and the third: the second is returned.
C16_Witness ==
    /\ Returned(run)
    /\ Len(run.available) = 3
    /\ RLess(SampleAt(run, 1), SampleAt(run, 2))
    /\ REq(SampleAt(run, 2), SampleAt(run, 3))
    /\ run.i = run.available[2]

\* C17: in every state of a Thompson run, alpha_i - 1 = drops[i].sold for
\* every arm i whose drop started with sold = 0, and the sum over all arms of
\* (alpha_i + beta_i - 2) equals the run's views.
C17_PosteriorCountsOutcomes ==
    (run.policy = "thompson" /\ run.agent # None) =>
        /\ \A j \in Arms(run) :
              run.drops0[j].sold = 0 =>
                  Posterior(run).alpha[j] - 1 = run.drops[j].sold
        /\ SumSeq([j \in 1 .. Len(run.drops) |->
                     Posterior(run).alpha[j] + Posterior(run).beta[j] - 2])
              = run.views

\* A returned Thompson run over two fresh drops with one success of the first
\* arm and one failure of the second.
C17_Witness ==
    /\ run.policy = "thompson" /\ Returned(run)
    /\ Len(run.drops) = 2 /\ FreshDrops(run)
    /\ run.views = 2
    /\ Posterior(run).alpha = <<2, 1>>
    /\ Posterior(run).beta = <<1, 2>>
    /\ run.drops[1].sold = 1

TotalSold(st) == SumSeq([j \in 1 .. Len(st.drops) |-> st.drops[j].sold])

\* C18 as stated: for drops that start with sold = 0, the sum of sold over
\* the drops equals tokens in every reachable state, so tokens never exceeds
\* the total initial stock and utilization_stock = tokens / (total initial
\* stock) lies in [0, 1].
C18_TokensAreSales ==
    FreshDrops(run) =>
        /\ TotalSold(run) = run.tokens
        /\ run.tokens <= TotalInitialStock(run)
        /\ Returned(run) =>
              /\ Metrics(run).utilization_stock[1] * TotalInitialStock(run)
                    = run.tokens * Metrics(run).utilization_stock[2]
              /\ RLeq(RInt(0), Metrics(run).utilization_stock)
              /\ RLeq(Metrics(run).utilization_stock, RInt(1))

\* C18 amended: for drops that start with sold = 0, the sum of sold over the
\* drops equals tokens in every reachable state; when moreover every drop
\* starts with stock >= 0, tokens never exceeds the total initial stock and
\* utilization_stock = tokens / max(1, total initial stock) lies in [0, 1].
C18_TokensAreSalesInStock ==
    FreshDrops(run) =>
        /\ TotalSold(run) = run.tokens
        /\ NonNegativeStock(run) =>
              /\ run.tokens <= TotalInitialStock(run)
              /\ Returned(run) =>
                    /\ REq(Metrics(run).utilization_stock,
                           Rat(run.tokens, IMax(1, TotalInitialStock(run))))
                    /\ RLeq(RInt(0), Metrics(run).utilization_stock)
                    /\ RLeq(Metrics(run).utilization_stock, RInt(1))

\* A returned run over fresh drops with stock >= 0 that sold a part of the
\* total initial stock, from a drop of its own.
C18_Witness ==
    /\ Returned(run) /\ FreshDrops(run) /\ NonNegativeStock(run)
    /\ Len(run.drops) = 2
    /\ run.tokens >= 1 /\ run.tokens < TotalInitialStock(run)
    /\ run.drops[2].sold = run.tokens

\* C19: the simulate_run of snappx_trl3_run1.py and that of bandits.py, run
\* side by side on equal drops, users, horizon_s, policy and seed and served
\* the same stream of random draws, consume the draws in the same order,
\* choose the same drop at every arrival, and end alike with equal drop
\* states, equal posteriors and equal metrics: at every step the two calls
\* differ in nothing but the file they come from.
C19_ImplementationsAgree ==
    /\ run.impl = "run1" /\ twin.impl = "bandits"
    /\ [twin EXCEPT !.impl = run.impl] = run

\* Both calls returned from a Thompson run over two drops, the first out of
\* stock from the start, with a sale and a failed view of the second.
C19_Witness ==
    /\ run.impl = "run1" /\ twin.impl = "bandits"
    /\ Returned(run) /\ Returned(twin)
    /\ run.policy = "thompson"
    /\ Len(run.drops) = 2 /\ run.drops0[1].stock = 0
    /\ twin.views = 2 /\ twin.tokens = 1 /\ twin.i = 2
    /\ twin.result = run.result

ValidRun(st) == st.users >= 0 /\ st.horizon_s > 0 /\ Supported(st.policy)

C20_Bounded ==
    ValidRun(run) =>
        /\ ~Raised(run)
        /\ Started(run) =>
              /\ Len(run.arrivals) = run.users
              /\ run.n <= run.users
              /\ run.views <= run.n
        /\ Returned(run) =>
              /\ run.n = run.users
              /\ Metrics(run).views <= run.users

C20_ArrivalStep ==
    ValidRun(run) =>
        /\ run.pc = "idle" => run'.pc = "loop" /\ run'.n = 0
        /\ run.pc = "loop" =>
              \/ /\ run'.pc = "loop"
                 /\ run'.n = run.n + 1
                 /\ run'.arrivals = run.arrivals
              \/ /\ run'.pc = "returned"
                 /\ run'.n = run.n
                 /\ run.n = run.users

\* C20: for users >= 0, horizon_s > 0 and a supported policy, simulate_run
\* always reaches the complete state, after processing exactly `users`
\* arrivals, one transition per arrival, none repeated or dropped; views is
\* at most users at run end.  In steps: such a call never fails and is never
\* past its last arrival; its first step enters the loop at position 0, and
\* every later step either processes the next arrival or, with all `users`
\* arrivals processed, returns; so it returns after users + 2 steps.
C20_RunCompletes == [](C20_Bounded) /\ [][C20_ArrivalStep]_vars

\* A returned run of MaxUsers arrivals of which one was skipped for want of
\* stock.
C20_Witness ==
    /\ ValidRun(run) /\ Returned(run)
    /\ run.users = MaxUsers /\ run.n = MaxUsers
    /\ Metrics(run).views = MaxUsers - 1
    /\ Metrics(run).tokens >= 1

====
